---- MODULE Spec2Model ----
(***************************************************************************)
(* Screen Controller of neo-snake (App component): the screen enum, the    *)
(* overlay flags, the active snake and mode, the GameCanvas key, and the   *)
(* handlers that move between them and patch the game store.               *)
(***************************************************************************)
EXTENDS Integers, FiniteSets, Sequences, TLC

\* ------------------------------------------------------------------ bounds
MaxLevel == 2
MaxGameKey == 1
MaxExtraLives == 1
MaxCatHits == 1

\* ------------------------------------------------------- program constants
BaseLives == 3

\* extraLives left undefined on a SnakeConfig
Unset == 0 - 1
\* a non-zero stunEndTime written by the engine
StunTime == 1

\* ------------------------------------------------------------------ values
Screen == {"menu", "game", "gameover", "adventureMap"}
GameMode == {"classic", "adventure"}

NoSnake == [null |-> TRUE]
SnakeConfig == {[extraLives |-> e] : e \in {Unset} \cup (1 .. MaxExtraLives)}
Levels == 1 .. MaxLevel
NoHandler == 0 - 1
Direction == {"UP", "DOWN", "LEFT", "RIGHT"}

VARIABLES
    screen,            \* useState<Screen>
    showShop,
    showSettings,
    showPauseMenu,
    currentSnake,      \* SnakeConfig or NoSnake (null)
    currentMode,
    gameKey,
    justUnlockedLevel, \* level number, or 0 for null
    store,             \* the game store (Session State)
    selectedSnake,     \* what getSelectedSnake() of the shop store returns
    directionCallbackRef, \* key of the engine instance whose handler is held
    unlockedLevel,     \* highest level the user store has unlocked
    lastOp             \* the handler that ran last and what it read

vars == <<screen, showShop, showSettings, showPauseMenu, currentSnake,
          currentMode, gameKey, justUnlockedLevel, store, selectedSnake,
          directionCallbackRef, unlockedLevel, lastOp>>

screenState == <<screen, showShop, showSettings, showPauseMenu, currentSnake,
                 currentMode, gameKey, justUnlockedLevel>>

\* lastOp records which handler ran last and what it read when it was called.
Op(name) == [op |-> name]

\* ------------------------------------------------------------- game store
DefaultStore ==
    [isPlaying |-> FALSE, isPaused |-> FALSE, isGameOver |-> FALSE,
     score |-> 0, lives |-> BaseLives, level |-> 1, lastPlayedLevel |-> 1,
     catHitsThisLevel |-> 0, isFirstGame |-> TRUE,
     isDying |-> FALSE, isStunned |-> FALSE, stunEndTime |-> 0]

\* snake?.extraLives || 0
ExtraLivesOf(snake) ==
    IF snake = NoSnake THEN 0
    ELSE IF snake.extraLives = Unset THEN 0 ELSE snake.extraLives

\* startGame(snake, mode, level?) of the game store
startGame(snake, level) ==
    [isPlaying |-> TRUE, isPaused |-> FALSE, isGameOver |-> FALSE,
     score |-> 0, lives |-> BaseLives + ExtraLivesOf(snake),
     level |-> level, lastPlayedLevel |-> level,
     catHitsThisLevel |-> 0, isFirstGame |-> TRUE,
     isDying |-> FALSE, isStunned |-> FALSE, stunEndTime |-> 0]

\* reset() of the game store
reset == DefaultStore

\* pauseGame() / resumeGame() of the game store
pauseGame(s) == [s EXCEPT !.isPaused = TRUE]
resumeGame(s) == [s EXCEPT !.isPaused = FALSE]

\* ------------------------------------------------------------------- Init
Init ==
    /\ screen = "menu"
    /\ showShop = FALSE
    /\ showSettings = FALSE
    /\ showPauseMenu = FALSE
    /\ currentSnake = NoSnake
    /\ currentMode = "classic"
    /\ gameKey = 0
    /\ justUnlockedLevel = 0
    /\ store = DefaultStore
    /\ selectedSnake \in SnakeConfig \cup {NoSnake}
    /\ directionCallbackRef = NoHandler
    /\ unlockedLevel = 1
    /\ lastOp = Op("init")

\* --------------------------------------------------------- render guards
\* {(screen === 'game' || screen === 'gameover') && currentSnake && ...}
GameScreenRendered ==
    /\ screen \in {"game", "gameover"}
    /\ currentSnake # NoSnake

\* showPauseButton={isPlaying && !isPaused && screen === 'game'}
PauseButtonShown ==
    /\ GameScreenRendered
    /\ store.isPlaying /\ ~store.isPaused /\ screen = "game"

GameOverModalRendered == GameScreenRendered /\ screen = "gameover"

\* {dpadEnabled && isPlaying && !isPaused && screen === 'game' && ...}, with
\* the D-Pad enabled in the user store
DPadRendered ==
    /\ GameScreenRendered
    /\ store.isPlaying /\ ~store.isPaused /\ screen = "game"

\* --------------------------------------------------------------- handlers
\* Variant: the menu start always plays classic.
HandleStartGameClassicOnly(snake, mode) ==
    /\ screen = "menu"
    /\ currentSnake' = snake
    /\ currentMode' = "classic"
    /\ store' = startGame(snake, 1)
    /\ screen' = "game"
    /\ lastOp' = [op |-> "handleStartGame", snake |-> snake, mode |-> mode]
    /\ UNCHANGED <<showShop, showSettings, showPauseMenu, gameKey,
                   justUnlockedLevel, selectedSnake, directionCallbackRef,
                   unlockedLevel>>

HandleStartGame(snake, mode) ==
    /\ screen = "menu"
    /\ currentSnake' = snake
    /\ currentMode' = mode
    /\ store' = startGame(snake, 1)
    /\ screen' = "game"
    /\ lastOp' = [op |-> "handleStartGame", snake |-> snake, mode |-> mode]
    /\ UNCHANGED <<showShop, showSettings, showPauseMenu, gameKey,
                   justUnlockedLevel, selectedSnake, directionCallbackRef,
                   unlockedLevel>>

\* Variant: the game-over report drops the active snake.
HandleGameOverDropsSnake ==
    /\ GameScreenRendered
    /\ screen' = "gameover"
    /\ currentSnake' = NoSnake
    /\ lastOp' = Op("handleGameOver")
    /\ UNCHANGED <<showShop, showSettings, showPauseMenu, currentMode, gameKey,
                   justUnlockedLevel, store, selectedSnake,
                   directionCallbackRef, unlockedLevel>>

HandleGameOver ==
    /\ GameScreenRendered
    /\ screen' = "gameover"
    /\ lastOp' = Op("handleGameOver")
    /\ UNCHANGED <<showShop, showSettings, showPauseMenu, currentSnake,
                   currentMode, gameKey, justUnlockedLevel, store, selectedSnake,
                   directionCallbackRef, unlockedLevel>>

\* Variant: the retry goes ahead without a snake.
RetryNeverAborts(snake) == FALSE

\* if (!snake) return;
RetryAborts(snake) == snake = NoSnake

\* Variant: the last life already counts as a full reset.
IsFullResetAtLastLife(s) == s.lives <= 1

\* const isFullReset = currentLives === 0;
IsFullReset(s) == s.lives = 0

\* Variant: the snake's extra lives are left out.
TotalLivesNoExtra(snake) == BaseLives

\* const totalLives = 3 + snakeExtraLives;
TotalLives(snake) == BaseLives + ExtraLivesOf(snake)

\* Variant: the patch leaves the stun in place.
RetryPatchKeepsStun(s, isFullReset, totalLives) ==
    [s EXCEPT
        !.isPlaying = TRUE,
        !.isPaused = FALSE,
        !.isGameOver = FALSE,
        !.score = IF isFullReset THEN 0 ELSE s.score,
        !.catHitsThisLevel = IF isFullReset THEN 0 ELSE s.catHitsThisLevel,
        !.level = IF isFullReset THEN s.lastPlayedLevel ELSE s.level,
        !.lives = IF isFullReset THEN totalLives ELSE s.lives,
        !.isFirstGame = IF isFullReset THEN TRUE ELSE s.isFirstGame,
        !.isDying = FALSE]

\* useGameStore.setState({...}) of the retry
RetryPatch(s, isFullReset, totalLives) ==
    [s EXCEPT
        !.isPlaying = TRUE,
        !.isPaused = FALSE,
        !.isGameOver = FALSE,
        !.score = IF isFullReset THEN 0 ELSE s.score,
        !.catHitsThisLevel = IF isFullReset THEN 0 ELSE s.catHitsThisLevel,
        !.level = IF isFullReset THEN s.lastPlayedLevel ELSE s.level,
        !.lives = IF isFullReset THEN totalLives ELSE s.lives,
        !.isFirstGame = IF isFullReset THEN TRUE ELSE s.isFirstGame,
        !.isDying = FALSE,
        !.isStunned = FALSE,
        !.stunEndTime = 0]

\* Variant: every retry remounts the canvas.
RetryGameKeyAlways(k, isFullReset) == k + 1

\* if (isFullReset) setGameKey(k => k + 1);
RetryGameKey(k, isFullReset) == IF isFullReset THEN k + 1 ELSE k

HandlePlayAgain ==
    /\ GameOverModalRendered
    /\ LET snake == selectedSnake
           currentLives == store.lives
           isFullReset == IsFullReset(store)
       IN /\ lastOp' = [op |-> "handlePlayAgain", snake |-> snake,
                        lives |-> currentLives]
          /\ IF RetryAborts(snake)
             THEN UNCHANGED <<screenState, store>>
             ELSE /\ RetryGameKey(gameKey, isFullReset) <= MaxGameKey
                  /\ currentSnake' = snake
                  /\ store' = RetryPatch(store, isFullReset, TotalLives(snake))
                  /\ gameKey' = RetryGameKey(gameKey, isFullReset)
                  /\ screen' = "game"
                  /\ UNCHANGED <<showShop, showSettings, showPauseMenu,
                                 currentMode, justUnlockedLevel>>
    /\ UNCHANGED <<selectedSnake, directionCallbackRef, unlockedLevel>>

\* Variant: the menu is reached without reset().
HandleMainMenuNoReset ==
    /\ GameOverModalRendered \/ showPauseMenu
    /\ showPauseMenu' = FALSE
    /\ screen' = "menu"
    /\ lastOp' = Op("handleMainMenu")
    /\ UNCHANGED <<showShop, showSettings, currentSnake, currentMode, gameKey,
                   justUnlockedLevel, store, selectedSnake, directionCallbackRef,
                   unlockedLevel>>

\* Variant: the menu is reached with the pause menu left up.
HandleMainMenuKeepsPauseMenu ==
    /\ GameOverModalRendered \/ showPauseMenu
    /\ store' = reset
    /\ screen' = "menu"
    /\ lastOp' = Op("handleMainMenu")
    /\ UNCHANGED <<showShop, showSettings, showPauseMenu, currentSnake,
                   currentMode, gameKey, justUnlockedLevel, selectedSnake,
                   directionCallbackRef, unlockedLevel>>

HandleMainMenu ==
    /\ GameOverModalRendered \/ showPauseMenu
    /\ store' = reset
    /\ showPauseMenu' = FALSE
    /\ screen' = "menu"
    /\ lastOp' = Op("handleMainMenu")
    /\ UNCHANGED <<showShop, showSettings, currentSnake, currentMode, gameKey,
                   justUnlockedLevel, selectedSnake, directionCallbackRef,
                   unlockedLevel>>

HandlePauseGame ==
    /\ PauseButtonShown
    /\ store' = pauseGame(store)
    /\ showPauseMenu' = TRUE
    /\ lastOp' = [op |-> "handlePauseGame", isPaused |-> store.isPaused,
                   showPauseMenu |-> showPauseMenu]
    /\ UNCHANGED <<screen, showShop, showSettings, currentSnake, currentMode,
                   gameKey, justUnlockedLevel, selectedSnake, directionCallbackRef,
                   unlockedLevel>>

\* Variant: resume leaves the pause menu up.
HandleResumeGameKeepsMenu ==
    /\ showPauseMenu
    /\ store' = resumeGame(store)
    /\ lastOp' = [op |-> "handleResumeGame",
                   afterPause |-> lastOp.op = "handlePauseGame",
                   isPaused |-> IF lastOp.op = "handlePauseGame"
                                THEN lastOp.isPaused ELSE store.isPaused,
                   showPauseMenu |-> IF lastOp.op = "handlePauseGame"
                                     THEN lastOp.showPauseMenu ELSE showPauseMenu]
    /\ UNCHANGED <<screen, showShop, showSettings, showPauseMenu, currentSnake,
                   currentMode, gameKey, justUnlockedLevel, selectedSnake,
                   directionCallbackRef, unlockedLevel>>

HandleResumeGame ==
    /\ showPauseMenu
    /\ showPauseMenu' = FALSE
    /\ store' = resumeGame(store)
    /\ lastOp' = [op |-> "handleResumeGame",
                   afterPause |-> lastOp.op = "handlePauseGame",
                   isPaused |-> IF lastOp.op = "handlePauseGame"
                                THEN lastOp.isPaused ELSE store.isPaused,
                   showPauseMenu |-> IF lastOp.op = "handlePauseGame"
                                     THEN lastOp.showPauseMenu ELSE showPauseMenu]
    /\ UNCHANGED <<screen, showShop, showSettings, currentSnake, currentMode,
                   gameKey, justUnlockedLevel, selectedSnake, directionCallbackRef,
                   unlockedLevel>>

HandleOpenSettingsFromPause ==
    /\ showPauseMenu
    /\ showSettings' = TRUE
    /\ lastOp' = Op("handleOpenSettingsFromPause")
    /\ UNCHANGED <<screen, showShop, showPauseMenu, currentSnake, currentMode,
                   gameKey, justUnlockedLevel, store, selectedSnake,
                   directionCallbackRef, unlockedLevel>>

\* unlockNextLevel() of the user store: each call unlocks one more level
unlockNextLevel(u) == u + 1

HandleLevelUp(level) ==
    /\ GameScreenRendered
    /\ lastOp' = Op("handleLevelUp")
    /\ UNCHANGED <<screenState, store, selectedSnake, directionCallbackRef,
                   unlockedLevel>>

\* Variant: the slot is called without the null check.
HandleDpadPressUnchecked(direction) ==
    /\ DPadRendered
    /\ lastOp' = [op |-> "handleDpadPress", direction |-> direction,
                   calls |-> <<[handler |-> directionCallbackRef,
                                direction |-> direction]>>]
    /\ UNCHANGED <<screenState, store, selectedSnake, directionCallbackRef,
                   unlockedLevel>>

\* The calls made into the engine are recorded in lastOp; what the engine
\* does with the direction is inside GameCanvas.
HandleDpadPress(direction) ==
    /\ DPadRendered
    /\ lastOp' = [op |-> "handleDpadPress", direction |-> direction,
                   calls |-> IF directionCallbackRef # NoHandler
                             THEN <<[handler |-> directionCallbackRef,
                                     direction |-> direction]>>
                             ELSE <<>>]
    /\ UNCHANGED <<screenState, store, selectedSnake, directionCallbackRef,
                   unlockedLevel>>

\* The mounted GameCanvas hands over its handler; the handler of the
\* instance mounted under key k is named k.
SetDirectionCallback(callback) ==
    /\ GameScreenRendered
    /\ callback = gameKey
    /\ directionCallbackRef' = callback
    /\ lastOp' = [op |-> "setDirectionCallback", callback |-> callback]
    /\ UNCHANGED <<screenState, store, selectedSnake, unlockedLevel>>

\* Variant: the report only cues the unlock animation.
HandleAdventureLevelCompleteNoUnlock(completedLevel) ==
    /\ GameScreenRendered
    /\ justUnlockedLevel' = completedLevel
    /\ lastOp' = Op("handleAdventureLevelComplete")
    /\ UNCHANGED <<screen, showShop, showSettings, showPauseMenu, currentSnake,
                   currentMode, gameKey, store, selectedSnake,
                   directionCallbackRef, unlockedLevel>>

HandleAdventureLevelComplete(completedLevel) ==
    /\ GameScreenRendered
    /\ unlockNextLevel(unlockedLevel) <= MaxLevel
    /\ unlockedLevel' = unlockNextLevel(unlockedLevel)
    /\ lastOp' = Op("handleAdventureLevelComplete")
    /\ UNCHANGED <<screenState, store, selectedSnake, directionCallbackRef>>

\* MainMenu props
OnOpenShop ==
    /\ screen = "menu"
    /\ showShop' = TRUE
    /\ lastOp' = Op("onOpenShop")
    /\ UNCHANGED <<screen, showSettings, showPauseMenu, currentSnake, currentMode,
                   gameKey, justUnlockedLevel, store, selectedSnake,
                   directionCallbackRef, unlockedLevel>>

OnOpenSettings ==
    /\ screen = "menu"
    /\ showSettings' = TRUE
    /\ lastOp' = Op("onOpenSettings")
    /\ UNCHANGED <<screen, showShop, showPauseMenu, currentSnake, currentMode,
                   gameKey, justUnlockedLevel, store, selectedSnake,
                   directionCallbackRef, unlockedLevel>>

OnOpenAdventureMap ==
    /\ screen = "menu"
    /\ screen' = "adventureMap"
    /\ lastOp' = Op("onOpenAdventureMap")
    /\ UNCHANGED <<showShop, showSettings, showPauseMenu, currentSnake,
                   currentMode, gameKey, justUnlockedLevel, store, selectedSnake,
                   directionCallbackRef, unlockedLevel>>

\* AdventureMap props.  startGame(null, ...) is a call into the game store
\* with a snake it is not typed for: it either completes or throws, and a
\* throw leaves the updates queued before it in place and skips the rest.
OnSelectLevel(level, throws) ==
    /\ screen = "adventureMap"
    /\ throws => selectedSnake = NoSnake
    /\ lastOp' = [op |-> "onSelectLevel", snake |-> selectedSnake]
    /\ LET snake == selectedSnake
       IN /\ currentSnake' = snake
          /\ currentMode' = "adventure"
          /\ IF throws
             THEN UNCHANGED <<store, justUnlockedLevel, screen>>
             ELSE /\ store' = startGame(snake, level)
                  /\ justUnlockedLevel' = 0
                  /\ screen' = "game"
    /\ UNCHANGED <<showShop, showSettings, showPauseMenu, gameKey, selectedSnake,
                   directionCallbackRef, unlockedLevel>>

OnBack ==
    /\ screen = "adventureMap"
    /\ screen' = "menu"
    /\ lastOp' = Op("onBack")
    /\ UNCHANGED <<showShop, showSettings, showPauseMenu, currentSnake,
                   currentMode, gameKey, justUnlockedLevel, store, selectedSnake,
                   directionCallbackRef, unlockedLevel>>

\* ShopModal / SettingsModal onClose
CloseShop ==
    /\ showShop
    /\ showShop' = FALSE
    /\ lastOp' = Op("closeShop")
    /\ UNCHANGED <<screen, showSettings, showPauseMenu, currentSnake, currentMode,
                   gameKey, justUnlockedLevel, store, selectedSnake,
                   directionCallbackRef, unlockedLevel>>

\* Variant: closing the settings also takes the pause menu down.
CloseSettingsAndPauseMenu ==
    /\ showSettings
    /\ showSettings' = FALSE
    /\ showPauseMenu' = FALSE
    /\ lastOp' = Op("closeSettings")
    /\ UNCHANGED <<screen, showShop, currentSnake, currentMode, gameKey,
                   justUnlockedLevel, store, selectedSnake,
                   directionCallbackRef, unlockedLevel>>

CloseSettings ==
    /\ showSettings
    /\ showSettings' = FALSE
    /\ lastOp' = Op("closeSettings")
    /\ UNCHANGED <<screen, showShop, showPauseMenu, currentSnake, currentMode,
                   gameKey, justUnlockedLevel, store, selectedSnake,
                   directionCallbackRef, unlockedLevel>>

\* ------------------------------------------------------ the collaborators
\* The shop changes the selection while its modal is open.
SelectSnake(snake) ==
    /\ showShop
    /\ selectedSnake' = snake
    /\ lastOp' = Op("selectSnake")
    /\ UNCHANGED <<screenState, store, directionCallbackRef, unlockedLevel>>

\* The engine inside GameCanvas advances only while the session runs.
EngineRunning ==
    /\ GameScreenRendered /\ screen = "game"
    /\ store.isPlaying /\ ~store.isPaused

EngineCatHit ==
    /\ EngineRunning
    /\ store.catHitsThisLevel < MaxCatHits
    /\ store' = [store EXCEPT !.catHitsThisLevel = @ + 1,
                              !.isStunned = TRUE, !.stunEndTime = StunTime]
    /\ lastOp' = Op("engine")
    /\ UNCHANGED <<screenState, selectedSnake, directionCallbackRef, unlockedLevel>>

EngineLevelUp ==
    /\ EngineRunning
    /\ store.level < MaxLevel
    /\ \E keep \in BOOLEAN :
          store' = [store EXCEPT
                      !.level = @ + 1,
                      !.score = @ + 1,
                      !.catHitsThisLevel = 0,
                      !.lastPlayedLevel = IF keep THEN @ ELSE store.level + 1]
    /\ lastOp' = Op("engine")
    /\ UNCHANGED <<screenState, selectedSnake, directionCallbackRef, unlockedLevel>>

EngineLoseLife ==
    /\ EngineRunning
    /\ store.lives > 0
    /\ store' = [store EXCEPT !.lives = @ - 1, !.isDying = TRUE,
                              !.isGameOver = TRUE, !.isPlaying = FALSE,
                              !.isFirstGame = FALSE]
    /\ lastOp' = Op("engine")
    /\ UNCHANGED <<screenState, selectedSnake, directionCallbackRef, unlockedLevel>>

\* ------------------------------------------------------------------- Next
\* The handlers that decide the screen and patch the game store.
ScreenHandlers ==
    \/ \E snake \in SnakeConfig, mode \in GameMode : HandleStartGame(snake, mode)
    \/ HandleGameOver
    \/ HandlePlayAgain
    \/ HandleMainMenu
    \/ HandlePauseGame
    \/ HandleResumeGame
    \/ HandleOpenSettingsFromPause
    \/ OnOpenShop
    \/ OnOpenSettings
    \/ OnOpenAdventureMap
    \/ \E level \in Levels, throws \in BOOLEAN : OnSelectLevel(level, throws)
    \/ OnBack
    \/ CloseShop
    \/ CloseSettings

\* The engine callbacks and the D-Pad, which leave screen and store alone.
EngineCallbacks ==
    \/ \E level \in Levels : HandleLevelUp(level)
    \/ \E direction \in Direction : HandleDpadPress(direction)
    \/ \E callback \in 0 .. MaxGameKey : SetDirectionCallback(callback)
    \/ \E completedLevel \in Levels : HandleAdventureLevelComplete(completedLevel)

\* Every handler of the component, with an engine that only loses lives.
Next ==
    \/ ScreenHandlers
    \/ EngineCallbacks
    \/ \E snake \in SnakeConfig : SelectSnake(snake)
    \/ EngineLoseLife

Spec == Init /\ [][Next]_vars

\* The screen handlers, with an engine that writes every store field it owns.
NextSession ==
    \/ ScreenHandlers
    \/ \E snake \in SnakeConfig : SelectSnake(snake)
    \/ EngineCatHit
    \/ EngineLevelUp
    \/ EngineLoseLife

SpecSession == Init /\ [][NextSession]_vars

\* ----------------------------------------------------------------- claims
\* What a retry step is: the step that leaves lastOp at handlePlayAgain.  The
\* unprimed variables are what the handler read when it was called.
RetryStep == lastOp'.op = "handlePlayAgain"

\* C1: a retry with a selected snake at lives == 0 leaves lives at 3 plus the
\* snake's extraLives (0 when unset), score 0, catHitsThisLevel 0, isFirstGame
\* true, level at the lastPlayedLevel read before the call, and gameKey one
\* greater than before.
C1_FullResetRetry ==
    [][(RetryStep /\ selectedSnake # NoSnake /\ store.lives = 0) =>
         LET extra == IF selectedSnake.extraLives = Unset
                      THEN 0 ELSE selectedSnake.extraLives
         IN /\ store'.lives = 3 + extra
            /\ store'.score = 0
            /\ store'.catHitsThisLevel = 0
            /\ store'.isFirstGame = TRUE
            /\ store'.level = store.lastPlayedLevel
            /\ gameKey' = gameKey + 1]_vars

\* A full reset has run with a snake that carries an extra life.
C1_Witness ==
    /\ lastOp.op = "handlePlayAgain"
    /\ lastOp.snake # NoSnake
    /\ lastOp.lives = 0
    /\ lastOp.snake.extraLives = 1
    /\ store.lives = 4
    /\ gameKey = 1
    /\ screen = "game"

\* C2: a retry with a selected snake at lives > 0 leaves score, level,
\* catHitsThisLevel, isFirstGame, lives and gameKey as they were.
C2_PartialRetry ==
    [][(RetryStep /\ selectedSnake # NoSnake /\ store.lives > 0) =>
         /\ store'.score = store.score
         /\ store'.level = store.level
         /\ store'.catHitsThisLevel = store.catHitsThisLevel
         /\ store'.isFirstGame = store.isFirstGame
         /\ store'.lives = store.lives
         /\ gameKey' = gameKey]_vars

\* A partial retry has run on a session that had scored, been hit, lost a
\* life and advanced past its lastPlayedLevel.
C2_Witness ==
    /\ lastOp.op = "handlePlayAgain"
    /\ lastOp.snake # NoSnake
    /\ lastOp.lives > 0
    /\ store.lives = lastOp.lives
    /\ store.score > 0
    /\ store.catHitsThisLevel > 0
    /\ store.isFirstGame = FALSE
    /\ store.level # store.lastPlayedLevel
    /\ screen = "game"

\* C3: a retry while getSelectedSnake() returns none changes no ScreenState
\* field and no Session State field, and screen stays gameover.
C3_RetryWithoutSnake ==
    [][(RetryStep /\ selectedSnake = NoSnake) =>
         /\ UNCHANGED <<screen, showShop, showSettings, showPauseMenu,
                        currentSnake, currentMode, gameKey, justUnlockedLevel>>
         /\ store' = store
         /\ screen' = "gameover"]_vars

\* A retry has run with no snake selected, on a session the engine had changed.
C3_Witness ==
    /\ lastOp.op = "handlePlayAgain"
    /\ lastOp.snake = NoSnake
    /\ selectedSnake = NoSnake
    /\ screen = "gameover"
    /\ store.lives < 3
    /\ store.isGameOver

\* C4: currentSnake is non-null whenever screen is game or gameover.
C4_ActiveSnakeNonNull ==
    screen \in {"game", "gameover"} => currentSnake # NoSnake

\* C5: selecting a level on the AdventureMap while no snake is selected leaves
\* the screen at adventureMap and currentSnake, currentMode,
\* justUnlockedLevel and the game store untouched.
C5_SelectLevelWithoutSnake ==
    [][(lastOp'.op = "onSelectLevel" /\ selectedSnake = NoSnake) =>
         /\ screen' = "adventureMap"
         /\ UNCHANGED <<currentSnake, currentMode, justUnlockedLevel, store>>]_vars

\* C6: showPauseMenu implies isPaused of the game store.
C6_PauseMenuImpliesPaused == showPauseMenu => store.isPaused

\* C7: gameKey changes only in a retry with a selected snake at lives == 0,
\* and then grows by exactly one.
C7_GameKeyOnlyOnFullReset ==
    [][gameKey' # gameKey =>
         /\ RetryStep
         /\ selectedSnake # NoSnake
         /\ store.lives = 0
         /\ gameKey' = gameKey + 1]_vars

\* The key has been bumped by a full reset, and other handlers ran since
\* without changing it.
C7_Witness ==
    /\ gameKey = 1
    /\ lastOp.op \in {"handleDpadPress", "handleAdventureLevelComplete",
                      "handlePauseGame", "closeSettings"}

\* C8: every step that moves the screen to menu leaves the game store at its
\* defaults.
C8_MenuResetsSession ==
    [][(screen # "menu" /\ screen' = "menu") => store' = DefaultStore]_vars

\* The menu has been reached from a session that was no longer at defaults.
C8_Witness ==
    /\ screen = "menu"
    /\ lastOp.op = "handleMainMenu"
    /\ store = DefaultStore
    /\ gameKey = 1

\* C9: after a retry with a selected snake, screen is game and the store has
\* isPlaying, not isPaused, not isGameOver, not isDying, not isStunned and
\* stunEndTime 0.
C9_RetryEntersGame ==
    [][(RetryStep /\ selectedSnake # NoSnake) =>
         /\ screen' = "game"
         /\ store'.isPlaying = TRUE
         /\ store'.isPaused = FALSE
         /\ store'.isGameOver = FALSE
         /\ store'.isDying = FALSE
         /\ store'.isStunned = FALSE
         /\ store'.stunEndTime = 0]_vars

\* A partial retry has run after a cat hit (which stuns) and a lost life
\* (which sets isDying and isGameOver).
C9_Witness ==
    /\ lastOp.op = "handlePlayAgain"
    /\ lastOp.snake # NoSnake
    /\ lastOp.lives > 0
    /\ store.catHitsThisLevel > 0
    /\ store.isFirstGame = FALSE
    /\ screen = "game"
    /\ store.isPlaying

C11_OverlayFrame ==
    [][/\ lastOp'.op = "onOpenShop" =>
            /\ showShop' = TRUE
            /\ UNCHANGED <<screen, showSettings, showPauseMenu, currentSnake,
                           currentMode, gameKey, justUnlockedLevel, store>>
       /\ lastOp'.op \in {"onOpenSettings", "handleOpenSettingsFromPause"} =>
            /\ showSettings' = TRUE
            /\ UNCHANGED <<screen, showShop, showPauseMenu, currentSnake,
                           currentMode, gameKey, justUnlockedLevel, store>>
       /\ lastOp'.op = "closeShop" =>
            /\ showShop' = FALSE
            /\ UNCHANGED <<screen, showSettings, showPauseMenu, currentSnake,
                           currentMode, gameKey, justUnlockedLevel, store>>
       /\ lastOp'.op = "closeSettings" =>
            /\ showSettings' = FALSE
            /\ UNCHANGED <<screen, showShop, showPauseMenu, currentSnake,
                           currentMode, gameKey, justUnlockedLevel, store>>]_vars

\* The settings were closed over a paused game with the shop still open.
C11_Witness ==
    /\ lastOp.op = "closeSettings"
    /\ showSettings = FALSE
    /\ showPauseMenu
    /\ showShop
    /\ screen = "game"

\* C12: a level-complete report while screen is game leaves screen at game,
\* calls unlockNextLevel exactly once (the user store is one level further),
\* and changes no ScreenState field other than justUnlockedLevel.
C12_LevelCompleteUnlocksOnce ==
    [][(lastOp'.op = "handleAdventureLevelComplete" /\ screen = "game") =>
         /\ screen' = "game"
         /\ unlockedLevel' = unlockedLevel + 1
         /\ UNCHANGED <<showShop, showSettings, showPauseMenu, currentSnake,
                        currentMode, gameKey>>]_vars

\* An adventure game has reported a level complete and play goes on.
C12_Witness ==
    /\ lastOp.op = "handleAdventureLevelComplete"
    /\ currentMode = "adventure"
    /\ screen = "game"
    /\ unlockedLevel = 2
    /\ store.isPlaying

\* C13 as stated: a start from the menu moves to game, sets currentSnake to
\* the snake passed in, sets currentMode to classic, and starts the session
\* with that snake.
C13_StartSetsClassic ==
    [][lastOp'.op = "handleStartGame" =>
         /\ screen' = "game"
         /\ currentSnake' = lastOp'.snake
         /\ currentMode' = "classic"
         /\ store'.isPlaying
         /\ store'.lives = 3 + (IF lastOp'.snake.extraLives = Unset
                                THEN 0 ELSE lastOp'.snake.extraLives)]_vars

\* C13 as amended: a start from the menu moves to game, sets currentSnake to
\* the snake passed in, sets currentMode to the mode passed in, and starts
\* the session with that snake.
C13_StartSetsPassedMode ==
    [][lastOp'.op = "handleStartGame" =>
         /\ screen' = "game"
         /\ currentSnake' = lastOp'.snake
         /\ currentMode' = lastOp'.mode
         /\ store'.isPlaying
         /\ store'.lives = 3 + (IF lastOp'.snake.extraLives = Unset
                                THEN 0 ELSE lastOp'.snake.extraLives)]_vars

\* A game was started from the menu in adventure mode with a snake other
\* than the selected one.
C13_Witness ==
    /\ lastOp.op = "handleStartGame"
    /\ lastOp.mode = "adventure"
    /\ currentMode = "adventure"
    /\ currentSnake = lastOp.snake
    /\ currentSnake # selectedSnake
    /\ screen = "game"

\* C14: once the screen has left game, the direction-handler slot holds no
\* handler.
C14_HandlerAbsentAfterGame ==
    [][(screen = "game" /\ screen' # "game") =>
         directionCallbackRef' = NoHandler]_vars

\* C15: a D-Pad press calls the handler held in the slot exactly once with
\* the pressed direction, and calls nothing when the slot is empty; the press
\* changes no ScreenState or game store field; a registration replaces the
\* slot.
C15_DpadRoutesToSlot ==
    [][/\ lastOp'.op = "handleDpadPress" =>
            /\ lastOp'.calls =
                 IF directionCallbackRef = NoHandler
                 THEN <<>>
                 ELSE <<[handler |-> directionCallbackRef,
                         direction |-> lastOp'.direction]>>
            /\ UNCHANGED <<screen, showShop, showSettings, showPauseMenu,
                           currentSnake, currentMode, gameKey,
                           justUnlockedLevel, store>>
       /\ lastOp'.op = "setDirectionCallback" =>
            directionCallbackRef' = lastOp'.callback]_vars

\* A press reached the handler of the remounted engine, which had replaced
\* the first one in the slot.
C15_Witness ==
    /\ lastOp.op = "handleDpadPress"
    /\ lastOp.direction = "LEFT"
    /\ lastOp.calls = <<[handler |-> 1, direction |-> "LEFT"]>>
    /\ directionCallbackRef = 1
    /\ gameKey = 1

\* C16: a game-over report while screen is game moves screen to gameover and
\* changes nothing else: currentSnake, currentMode, gameKey, the overlay
\* flags and the game store are as before.
C16_GameOverOnlyMovesScreen ==
    [][(lastOp'.op = "handleGameOver" /\ screen = "game") =>
         /\ screen' = "gameover"
         /\ UNCHANGED <<showShop, showSettings, showPauseMenu, currentSnake,
                        currentMode, gameKey, justUnlockedLevel, store>>]_vars

\* The engine reported the loss of the last life of a started game.
C16_Witness ==
    /\ lastOp.op = "handleGameOver"
    /\ screen = "gameover"
    /\ currentSnake # NoSnake
    /\ store.lives = 0
    /\ store.isGameOver

\* C17: in every reachable state some handler or engine callback offered by
\* a rendered component is enabled; in particular screen is never game or
\* gameover with currentSnake null and every overlay closed.
C17_NeverStuck ==
    /\ ENABLED (ScreenHandlers \/ EngineCallbacks)
    /\ ~(/\ screen \in {"game", "gameover"}
         /\ currentSnake = NoSnake
         /\ ~showShop /\ ~showSettings /\ ~showPauseMenu)

\* C18: showPauseMenu implies screen is game or gameover.
C18_PauseMenuOnlyOverGame ==
    showPauseMenu => screen \in {"game", "gameover"}

\* The pause menu is up over the gameover screen, from where the GameOver
\* modal and the pause menu both offer the way to the menu.
C18_Witness ==
    /\ showPauseMenu
    /\ screen = "gameover"
    /\ currentSnake # NoSnake

====
